---------------------------- MODULE Spec2Model ----------------------------
(***************************************************************************)
(* Model of snorkel/models/candidate.py (the Candidate base type and the   *)
(* candidate_subclass factory, with the relational store its declarations  *)
(* address) and of snorkel/parser/spacy_parser.py (Spacy.parse and the     *)
(* SpacyPretagged overlay).                                                *)
(*                                                                         *)
(* Six specifications share the module:                                    *)
(*   SpecFactory   candidate_subclass as one atomic call per invocation,   *)
(*                 in one interpreter process that may be restarted        *)
(*   SpecRace      candidate_subclass run by two processes, one line at a  *)
(*                 time                                                    *)
(*   SpecStore     candidate rows, their uniqueness constraint and the     *)
(*                 ON DELETE CASCADE / relationship cascades               *)
(*   SpecIdentity  ==, hash() and get_parent() of Candidate instances      *)
(*   SpecParse     the generator Spacy.parse                               *)
(*   SpecOverlay   SpacyPretagged.update_entity_attributes                 *)
(***************************************************************************)
EXTENDS Integers, Sequences, FiniteSets, TLC

VARIABLES
    tables,     \* variant tables of the database: records [name, cols]
    issued,     \* CREATE TABLE statements sent so far: [proc, table, result]
    metadata,   \* per process, the Table objects of SnorkelBase.metadata
    pc,         \* per process, its place in candidate_subclass
    frame,      \* per process, the locals of its running invocation
    serial,     \* whether the callers serialize their invocations
    context,    \* ids of the rows of table context
    candidate,  \* rows of table candidate: [id, type]
    rows,       \* rows of the variant tables: [id, table, refs]
    nextId,     \* the next candidate.id the database hands out
    objA, objB, \* two Candidate instances in memory
    sents,      \* doc.sents: per sentence, whether parse_sent raises on it
    gen,        \* the generator Spacy.parse returned
    cursor,     \* the sentence the for loop of parse is at
    position,   \* the local of that name in parse
    yielded,    \* the records parse has yielded
    warned,     \* the positions logger.warn was called with
    tokens,     \* the sentence of the overlay: abs_char_offsets
    targets,    \* the indices of its tokens whose word is 'BmBTarget'
    hit_starts, \* document.meta['hit_starts']
    bmb_id,     \* document.meta['bmb_id']
    hits,       \* the local of that name in update_entity_attributes
    entity_types, entity_cids,  \* parts['entity_types'], parts['entity_cids']
    opc,        \* where update_entity_attributes is
    raised,     \* the exception update_entity_attributes ended with
    last        \* outcome of the last completed call

factoryVars == <<tables, issued, metadata, pc, frame, serial>>

storeVars == <<context, candidate, rows, nextId>>

objVars == <<objA, objB>>

parseVars == <<sents, gen, cursor, position, yielded, warned>>

overlayVars ==
    <<tokens, targets, hit_starts, bmb_id, hits, entity_types, entity_cids,
      opc, raised>>

textVars == <<parseVars, overlayVars>>

vars == <<factoryVars, storeVars, objVars, textVars, last>>

(***************************************************************************)
(* Bounds and domains                                                      *)
(***************************************************************************)
MaxArity == 2

RoleNames == {"a", "b"}

ClassNames == {"Spouse", "GeneDisease"}

TableNames == {"spouse", "gene_disease"}

Procs == {"p1", "p2"}

None == "None"

Range(s) == {s[i] : i \in DOMAIN s}

SeqsUpTo(S, n) == UNION {[1..k -> S] : k \in 0..n}

RoleLists == SeqsUpTo(RoleNames, MaxArity)

HasDuplicates(args) == \E i, j \in DOMAIN args : i # j /\ args[i] = args[j]

WellFormed == {args \in RoleLists : args # <<>> /\ ~HasDuplicates(args)}

(***************************************************************************)
(* candidate_subclass, line by line                                        *)
(***************************************************************************)
\* utils.camel_to_under: "NewCandidateClass" -> "new_candidate_class"
camel_to_under(class_name) ==
    CASE class_name = "Spouse" -> "spouse"
      [] class_name = "GeneDisease" -> "gene_disease"

\* line 76
TableNameOf(class_name, table_name) ==
    IF table_name = None THEN camel_to_under(class_name) ELSE table_name

\* lines 93-104: the Column made in iteration i is appended to
\* unique_con_args; columns are named here by the iteration making them
unique_con_args(args) == [i \in 1..Len(args) |-> i]

\* lines 97, 104: class_attribs[arg + '_id'] is a dict entry, so a later
\* iteration with the same arg replaces the Column of an earlier one
class_attribs_id(args) ==
    [r \in Range(args) |->
        CHOOSE i \in 1..Len(args) :
            /\ args[i] = r
            /\ \A j \in 1..Len(args) : args[j] = r => j <= i]

\* Columns of unique_con_args that are no attribute of the class: they get
\* no name and no table, and the UniqueConstraint of line 109 cannot take
\* them when the Table of the class is built
OrphanColumns(args) ==
    {i \in Range(unique_con_args(args)) :
        \A r \in Range(args) : class_attribs_id(args)[r] # i}

has_metadata(p, tn) == \E t \in metadata[p] : t.name = tn

\* line 112: type(class_name, (Candidate,), class_attribs). The declarative
\* metaclass of SnorkelBase builds Table(table_name, SnorkelBase.metadata,
\* ...): a name already in this process's metadata is refused, then the
\* constraint's columns are attached. Nothing in lines 76-112 looks at the
\* length of args or at the database.
TypeResult(p, tn, args) ==
    IF has_metadata(p, tn) THEN "InvalidRequestError"
    ELSE IF OrphanColumns(args) # {} THEN "ArgumentError"
    ELSE "ok"

TableExists(tn) == \E t \in tables : t.name = tn

\* The check of line 115 dropped: the table is taken to be absent
has_table_unchecked(tn) == FALSE

\* line 115: snorkel_engine.dialect.has_table(snorkel_engine, table_name)
has_table(tn) == TableExists(tn)

\* line 116: what the database may answer to C.__table__.create(). A name it
\* already holds is refused. The DDL of a class without roles carries a
\* UniqueConstraint without columns (line 109 with unique_con_args empty):
\* whether that statement is accepted is the database's and the DDL
\* compiler's affair, so both answers are possible.
CreateOutcomes(tn, args) ==
    IF TableExists(tn) THEN {"OperationalError"}
    ELSE IF args = <<>> THEN {"ok", "OperationalError"}
    ELSE {"ok"}

ColsOf(tn) == {t.cols : t \in {u \in tables : u.name = tn}}

Idle == [at |-> "idle", table |-> None, args |-> <<>>, seen |-> FALSE]

FactoryResult(tn, args, pre, res, created) ==
    [op |-> "candidate_subclass", table |-> tn, args |-> args,
     pre |-> pre, result |-> res, created |-> created]

NoCall == FactoryResult(None, <<>>, {}, "none", FALSE)

\* candidate_subclass(class_name, args, table_name) as one call of process
\* p; db is the database's answer should line 116 be reached
candidate_subclass(p, class_name, args, table_name, db) ==
    LET tn == TableNameOf(class_name, table_name)
        built == TypeResult(p, tn, args)
        create == built = "ok" /\ ~has_table(tn)
    IN  /\ pc[p] = "idle"
        /\ create => db \in CreateOutcomes(tn, args)
        /\ ~create => db = "ok"
        /\ metadata' = IF built = "ok"
                       THEN [metadata EXCEPT ![p] = @ \cup {[name |-> tn, cols |-> args]}]
                       ELSE metadata
        /\ tables' = IF create /\ db = "ok"
                     THEN tables \cup {[name |-> tn, cols |-> args]}
                     ELSE tables
        /\ issued' = IF create
                     THEN issued \cup {[proc |-> p, table |-> tn, result |-> db]}
                     ELSE issued
        /\ last' = FactoryResult(tn, args, ColsOf(tn),
                                 IF create THEN db ELSE built,
                                 create /\ db = "ok")
        /\ UNCHANGED <<pc, frame, serial, storeVars, objVars, textVars>>

\* A call whose role list names each role once and at least one role
Call ==
    \E class_name \in ClassNames, args \in WellFormed,
       table_name \in TableNames \cup {None} :
        candidate_subclass("p1", class_name, args, table_name, "ok")

\* A call with an empty role list or a role named twice
CallMalformed ==
    \E class_name \in ClassNames, args \in RoleLists \ WellFormed,
       table_name \in TableNames \cup {None},
       db \in {"ok", "OperationalError"} :
        candidate_subclass("p1", class_name, args, table_name, db)

\* A new interpreter process: SnorkelBase.metadata starts empty, the
\* database keeps its tables
Restart ==
    /\ metadata["p1"] # {}
    /\ metadata' = [metadata EXCEPT !["p1"] = {}]
    /\ UNCHANGED <<tables, issued, pc, frame, serial, storeVars, objVars, textVars, last>>

NoObject == [oid |-> 0, ctxs |-> <<>>]

\* The parts of the state a specification leaves alone
StoreEmpty ==
    /\ context = {}
    /\ candidate = {}
    /\ rows = {}
    /\ nextId = 1

ObjectsEmpty ==
    /\ objA = NoObject
    /\ objB = NoObject

ParseEmpty ==
    /\ sents = <<>>
    /\ gen = "none"
    /\ cursor = 1
    /\ position = 0
    /\ yielded = <<>>
    /\ warned = <<>>

OverlayEmpty ==
    /\ tokens = <<>>
    /\ targets = {}
    /\ hit_starts = <<>>
    /\ bmb_id = 0
    /\ hits = <<>>
    /\ entity_types = <<>>
    /\ entity_cids = <<>>
    /\ opc = "none"
    /\ raised = "none"

InitFactory ==
    /\ StoreEmpty
    /\ ObjectsEmpty
    /\ ParseEmpty
    /\ OverlayEmpty
    /\ tables = {}
    /\ issued = {}
    /\ metadata = [p \in Procs |-> {}]
    /\ pc = [p \in Procs |-> "idle"]
    /\ frame = [p \in Procs |-> Idle]
    /\ serial = TRUE
    /\ last = NoCall

NextFactory == Call \/ CallMalformed \/ Restart

SpecFactory == InitFactory /\ [][NextFactory]_vars

(***************************************************************************)
(* candidate_subclass run by two processes (two interpreters, one          *)
(* database), one line at a time                                           *)
(***************************************************************************)
\* lines 76-112
Begin(p) ==
    \E class_name \in ClassNames, args \in WellFormed,
       table_name \in TableNames \cup {None} :
        LET tn == TableNameOf(class_name, table_name)
            built == TypeResult(p, tn, args)
        IN  /\ pc[p] = "idle"
            /\ serial => \A q \in Procs : pc[q] = "idle"
            /\ IF built = "ok"
               THEN /\ metadata' = [metadata EXCEPT ![p] =
                                       @ \cup {[name |-> tn, cols |-> args]}]
                    /\ pc' = [pc EXCEPT ![p] = "line115"]
                    /\ frame' = [frame EXCEPT ![p] =
                                    [at |-> "line115", table |-> tn,
                                     args |-> args, seen |-> FALSE]]
               ELSE \* the exception of line 112 ends the call
                    UNCHANGED <<metadata, pc, frame>>
            /\ UNCHANGED <<tables, issued, serial, storeVars, objVars, textVars, last>>

\* line 115
Check(p) ==
    /\ pc[p] = "line115"
    /\ frame' = [frame EXCEPT ![p].seen = has_table(frame[p].table)]
    /\ pc' = [pc EXCEPT ![p] =
                 IF has_table(frame[p].table) THEN "line117" ELSE "line116"]
    /\ UNCHANGED <<tables, issued, metadata, serial, storeVars, objVars, textVars, last>>

\* line 116; a refused CREATE TABLE raises out of candidate_subclass
Create(p) ==
    \E db \in CreateOutcomes(frame[p].table, frame[p].args) :
        /\ pc[p] = "line116"
        /\ issued' = issued \cup
               {[proc |-> p, table |-> frame[p].table, result |-> db]}
        /\ IF db = "ok"
           THEN /\ tables' = tables \cup
                       {[name |-> frame[p].table, cols |-> frame[p].args]}
                /\ pc' = [pc EXCEPT ![p] = "line117"]
                /\ UNCHANGED frame
           ELSE /\ pc' = [pc EXCEPT ![p] = "idle"]
                /\ frame' = [frame EXCEPT ![p] = Idle]
                /\ UNCHANGED tables
        /\ UNCHANGED <<metadata, serial, storeVars, objVars, textVars, last>>

\* line 117
Return(p) ==
    /\ pc[p] = "line117"
    /\ pc' = [pc EXCEPT ![p] = "idle"]
    /\ frame' = [frame EXCEPT ![p] = Idle]
    /\ UNCHANGED <<tables, issued, metadata, serial, storeVars, objVars, textVars, last>>

InitRace ==
    /\ StoreEmpty
    /\ ObjectsEmpty
    /\ ParseEmpty
    /\ OverlayEmpty
    /\ tables = {}
    /\ issued = {}
    /\ metadata = [p \in Procs |-> {}]
    /\ pc = [p \in Procs |-> "idle"]
    /\ frame = [p \in Procs |-> Idle]
    /\ serial \in BOOLEAN
    /\ last = NoCall

NextRace == \E p \in Procs : Begin(p) \/ Check(p) \/ Create(p) \/ Return(p)

SpecRace == InitRace /\ [][NextRace]_vars


(***************************************************************************)
(* The store behind the declarations of candidate_subclass: table          *)
(* candidate (lines 16-20), one table per variant (lines 80-109) and table *)
(* context, which the role columns reference                               *)
(***************************************************************************)
MaxCands == 2

Contexts == {1, 2}

NULL == 0

\* lines 97, 107: <arg>_id is an Integer column with a foreign key and no
\* nullable=False (compare lines 18-19), so a role may be left unbound
RoleValues == Contexts \cup {NULL}

ClassOf(tn) == CHOOSE t \in metadata["p1"] : t.name = tn

TableOf(tn) == CHOOSE t \in tables : t.name = tn

Bound(refs) == \A c \in DOMAIN refs : refs[c] # NULL

\* The constraint left out of __table_args__
UniqueViolationNone(tn, vals) == FALSE

\* The constraint taken over the combination of Contexts, whatever their
\* roles
UniqueViolationUnordered(tn, vals) ==
    \E r \in rows :
        /\ r.table = tn
        /\ Bound(r.refs) /\ Bound(vals)
        /\ \E f \in Permutations(DOMAIN vals) :
              \A c \in DOMAIN vals : r.refs[f[c]] = vals[c]

\* line 109: UniqueConstraint(*unique_con_args), the <arg>_id columns in
\* role order. The database compares column by column, and a NULL equals
\* nothing, itself included.
UniqueViolation(tn, vals) ==
    \E r \in rows :
        /\ r.table = tn
        /\ \A c \in DOMAIN vals :
              r.refs[c] # NULL /\ vals[c] # NULL /\ r.refs[c] = vals[c]

References(r, c) == \E col \in DOMAIN r.refs : r.refs[col] = c

Ids(S) == {r.id : r \in S}

StoreResult(op, tn, refs, res) ==
    [op |-> op, table |-> tn, refs |-> refs, result |-> res]

\* session.add(C(**kwargs)); session.commit() for the class C of table tn:
\* one row in candidate (type = polymorphic_identity, line 86) and one in
\* the variant table, or neither
CreateCandidate ==
    \E tn \in TableNames :
        /\ has_metadata("p1", tn) /\ TableExists(tn)
        /\ ClassOf(tn).cols = TableOf(tn).cols
        /\ \E vals \in [Range(TableOf(tn).cols) -> context \cup {NULL}] :
              /\ UniqueViolation(tn, vals) \/ nextId <= MaxCands
              /\ IF UniqueViolation(tn, vals)
                 THEN /\ last' = StoreResult("create", tn, vals, "IntegrityError")
                      /\ UNCHANGED storeVars
                 ELSE /\ candidate' = candidate \cup {[id |-> nextId, type |-> tn]}
                      /\ rows' = rows \cup
                            {[id |-> nextId, table |-> tn, refs |-> vals]}
                      /\ nextId' = nextId + 1
                      /\ last' = StoreResult("create", tn, vals, "ok")
                      /\ UNCHANGED context
        /\ UNCHANGED <<factoryVars, objVars, textVars>>

\* line 97: ForeignKey('context.id', ondelete='CASCADE'): the rows of the
\* variant tables that reference context c go with it
CascadeFromContext(c) == {r \in rows : References(r, c)}

\* line 83: ForeignKey('candidate.id', ondelete='CASCADE'): the variant row
\* goes with its candidate row
CascadeFromCandidate(ids) == {r \in rows : r.id \in ids}

\* lines 98-103: the backref <table>_<arg>s on Context with
\* cascade='all, delete-orphan': the Candidate objects of the classes
\* defined in this process that are bound to context c
BackrefCandidates(c) ==
    {r \in rows : has_metadata("p1", r.table) /\ References(r, c)}

NoArgs == <<>>

\* DELETE FROM context WHERE id = c, as session.query(Context).delete()
\* sends it: the database's cascades alone
DeleteContextSQL ==
    \E c \in context :
        /\ context' = context \ {c}
        /\ rows' = rows \ CascadeFromContext(c)
        /\ last' = StoreResult("delete_sql", None, NoArgs, "ok")
        /\ UNCHANGED <<candidate, nextId, factoryVars, objVars, textVars>>

\* session.delete(context); session.commit(): the unit of work deletes the
\* Candidate objects of the backrefs (both rows of each, the class being
\* joined to candidate), then the context row
DeleteContextORM ==
    \E c \in context :
        LET gone == BackrefCandidates(c)
        IN  /\ context' = context \ {c}
            /\ candidate' = {b \in candidate : b.id \notin Ids(gone)}
            /\ rows' = (rows \ gone) \ CascadeFromContext(c)
            /\ last' = StoreResult("delete_orm", None, NoArgs, "ok")
            /\ UNCHANGED <<nextId, factoryVars, objVars, textVars>>

\* DELETE FROM candidate WHERE id = i
DeleteCandidate ==
    \E b \in candidate :
        /\ candidate' = candidate \ {b}
        /\ rows' = rows \ CascadeFromCandidate({b.id})
        /\ last' = StoreResult("delete_candidate", None, NoArgs, "ok")
        /\ UNCHANGED <<context, nextId, factoryVars, objVars, textVars>>

\* The state after candidate_subclass has defined the variants in this
\* process, each with a role list of its own, over a filled context table
InitStore ==
    /\ \E cs, cg \in WellFormed :
          /\ tables = {[name |-> "spouse", cols |-> cs],
                       [name |-> "gene_disease", cols |-> cg]}
          /\ metadata = [p \in Procs |-> IF p = "p1" THEN tables ELSE {}]
    /\ issued = {[proc |-> "p1", table |-> tn, result |-> "ok"] : tn \in TableNames}
    /\ pc = [p \in Procs |-> "idle"]
    /\ frame = [p \in Procs |-> Idle]
    /\ serial = TRUE
    /\ context = Contexts
    /\ candidate = {}
    /\ rows = {}
    /\ nextId = 1
    /\ ObjectsEmpty
    /\ ParseEmpty
    /\ OverlayEmpty
    /\ last = StoreResult("none", None, NoArgs, "ok")

NextStore ==
    CreateCandidate \/ DeleteContextSQL \/ DeleteContextORM \/ DeleteCandidate

SpecStore == InitStore /\ [][NextStore]_vars

(***************************************************************************)
(* Candidate instances in memory: ==, hash() and get_parent()              *)
(***************************************************************************)
MaxRoles == 3

Spans == {1, 2, 3}

Unbound == 0

\* Context.stable_id, one per Context
stable_id(c) == 100 + c

\* Context.get_parent(): spans 1 and 2 lie in one sentence, span 3 in
\* another
ParentOf(c) == IF c = 3 THEN 20 ELSE 10

\* line 29: get_contexts(), the attributes named by __argnames__ in role
\* order; an attribute never assigned is None
get_contexts(o) == o.ctxs

AllBound(o) == \A i \in DOMAIN o.ctxs : o.ctxs[i] # Unbound

Count(p, v) == Cardinality({i \in DOMAIN p : p[i] = v})

\* The parents of the first and the last role compared, the others not
get_parent_ends(o) ==
    IF Len(get_contexts(o)) = 0 THEN [result |-> "IndexError", value |-> 0]
    ELSE IF ~AllBound(o) THEN [result |-> "AttributeError", value |-> 0]
    ELSE LET p == [i \in DOMAIN o.ctxs |-> ParentOf(get_contexts(o)[i])]
         IN  IF p[1] = p[Len(p)]
             THEN [result |-> "ok", value |-> p[1]]
             ELSE [result |-> "Exception", value |-> 0]

\* lines 31-37. Line 33 calls get_parent() on every element of
\* get_contexts(): None has no such method (AttributeError); with no role
\* at all p[0] does not exist (IndexError)
get_parent(o) ==
    IF ~AllBound(o) THEN [result |-> "AttributeError", value |-> 0]
    ELSE IF Len(get_contexts(o)) = 0 THEN [result |-> "IndexError", value |-> 0]
    ELSE LET p == [i \in DOMAIN o.ctxs |-> ParentOf(get_contexts(o)[i])]
         IN  IF Count(p, p[1]) = Len(p)
             THEN [result |-> "ok", value |-> p[1]]
             ELSE [result |-> "Exception", value |-> 0]

StableIds(o) == [i \in DOMAIN o.ctxs |-> stable_id(get_contexts(o)[i])]

\* lines 55-56: hash(tuple(c.stable_id for c in self.get_contexts())), a
\* function of the tuple of stable ids, which stands for its hash here
candidate_hash(o) ==
    IF ~AllBound(o) THEN [result |-> "AttributeError", value |-> <<>>]
    ELSE [result |-> "ok", value |-> StableIds(o)]

\* lines 9-56 define __hash__ and no __eq__ (nor __cmp__): a == b is the
\* comparison every Python object inherits, true of an object and itself
candidate_eq(a, b) == a.oid = b.oid

ObjResult(op, r) == [op |-> op, result |-> r.result, value |-> r.value]

Equals ==
    /\ last' = ObjResult("eq", [result |-> IF candidate_eq(objA, objB)
                                          THEN "True" ELSE "False",
                                value |-> 0])
    /\ UNCHANGED <<factoryVars, storeVars, objVars, textVars>>

Hash ==
    /\ last' = ObjResult("hash", candidate_hash(objA))
    /\ UNCHANGED <<factoryVars, storeVars, objVars, textVars>>

GetParent ==
    /\ last' = ObjResult("get_parent", get_parent(objA))
    /\ UNCHANGED <<factoryVars, storeVars, objVars, textVars>>

\* The bindings of a variant of one to MaxRoles roles
Tuples == UNION {[1..k -> Spans \cup {Unbound}] : k \in 1..MaxRoles}

\* objA and objB are one object, or two objects (two constructions, or
\* two loads of stored records) with any bindings
InitIdentity ==
    /\ tables = {} /\ issued = {}
    /\ metadata = [p \in Procs |-> {}]
    /\ pc = [p \in Procs |-> "idle"]
    /\ frame = [p \in Procs |-> Idle]
    /\ serial = TRUE
    /\ StoreEmpty
    /\ ParseEmpty
    /\ OverlayEmpty
    /\ \E ta \in Tuples : objA = [oid |-> 1, ctxs |-> ta]
    /\ \/ objB = objA
       \/ \E tb \in Tuples : objB = [oid |-> 2, ctxs |-> tb]
    /\ last = ObjResult("none", [result |-> "none", value |-> 0])

NextIdentity == Equals \/ Hash \/ GetParent

SpecIdentity == InitIdentity /\ [][NextIdentity]_vars

(***************************************************************************)
(* Properties of the factory                                              *)
(***************************************************************************)
TablesNamed(tn) == {t \in tables : t.name = tn}

\* C1: a call of the factory for a structure name whose table a completed
\* earlier call created with the identical role list does not fail, creates
\* nothing and leaves the structure existing exactly once.
C1_RepeatedCallIsNoOp ==
    (last.op = "candidate_subclass" /\ last.pre = {last.args})
        => /\ last.result = "ok"
           /\ ~last.created
           /\ Cardinality(TablesNamed(last.table)) = 1

\* C4: the call fails, returns no type and creates no structure when the
\* role list is empty, or holds a name twice, or the structure name exists
\* with a different role list.
C4_InvalidCallFails ==
    (/\ last.op = "candidate_subclass"
     /\ \/ last.args = <<>>
        \/ HasDuplicates(last.args)
        \/ (last.pre # {} /\ last.pre # {last.args}))
        => /\ last.result # "ok"
           /\ ~last.created
           /\ last.pre = ColsOf(last.table)

SentFor(tn) == {i \in issued : i.table = tn}

\* C10: serialized invocations send CREATE TABLE for a name at most once;
\* where two were sent for one name (both callers saw the table absent at
\* line 115), the table was created once and the other statement hit the
\* existing table.
C10_CheckThenCreate ==
    \A tn \in TableNames :
        /\ serial => Cardinality(SentFor(tn)) <= 1
        /\ Cardinality({i \in SentFor(tn) : i.result = "ok"}) <= 1
        /\ Cardinality(SentFor(tn)) >= 2
              => \E i \in SentFor(tn) : i.result = "OperationalError"

\* Both processes passed line 115 for the same absent table and both sent
\* their CREATE TABLE
C10_BothCreated ==
    \E tn \in TableNames :
        /\ ~serial
        /\ Cardinality(SentFor(tn)) = 2
        /\ \E i \in SentFor(tn) : i.result = "OperationalError"

(***************************************************************************)
(* Properties of the store                                                *)
(***************************************************************************)
SameTuple(tn, refs) == {r \in rows : r.table = tn /\ r.refs = refs}

\* C2: no two stored instances of one variant have the same tuple
\* of role references, and no creation of such a tuple is accepted.
C2_TupleUnique ==
    /\ \A r1, r2 \in rows :
          (r1.table = r2.table /\ r1.refs = r2.refs) => r1.id = r2.id
    /\ (last.op = "create" /\ last.result = "ok")
          => Cardinality(SameTuple(last.table, last.refs)) = 1

\* C2, for bound roles: among the instances of one variant whose roles are all
\* bound, no two have the same tuple of role references; creating such a
\* tuple a second time is rejected with a constraint violation and leaves
\* the store unchanged.
C2_BoundTupleUnique ==
    /\ [](\A r1, r2 \in rows :
            (r1.table = r2.table /\ r1.refs = r2.refs /\ Bound(r1.refs))
                => r1.id = r2.id)
    /\ [][(/\ last'.op = "create"
           /\ Bound(last'.refs)
           /\ SameTuple(last'.table, last'.refs) # {})
             => /\ last'.result = "IntegrityError"
                /\ UNCHANGED storeVars]_vars

\* A creation was refused for its tuple
C2_Rejected ==
    /\ last.op = "create"
    /\ last.result = "IntegrityError"
    /\ Bound(last.refs)
    /\ Cardinality(SameTuple(last.table, last.refs)) = 1

\* refs binds the Contexts of other to the same roles in another order
Swapped(other, refs) ==
    /\ DOMAIN other = DOMAIN refs
    /\ Bound(other) /\ Bound(refs)
    /\ other # refs
    /\ \E f \in Permutations(DOMAIN refs) :
          \A c \in DOMAIN refs : refs[c] = other[f[c]]

SwappedOf(tn, refs) == {r \in rows : r.table = tn /\ Swapped(r.refs, refs)}

\* C5: with an instance binding (x, y) stored, the creation of an
\* instance of the variant binding (y, x) is rejected.
C5_SwapRejected ==
    (last.op = "create" /\ SwappedOf(last.table, last.refs) # {})
        => last.result = "IntegrityError"

\* C5, in role order: the constraint is on the tuple in role order. With an
\* instance binding (x, y) stored, x # y, the creation of one binding (y, x)
\* is rejected exactly when an instance binding (y, x) is stored already;
\* otherwise it is accepted and both are stored.
C5_SwapAcceptedUnlessStored ==
    [][(/\ last'.op = "create"
        /\ SwappedOf(last'.table, last'.refs) # {})
          => IF SameTuple(last'.table, last'.refs) # {}
             THEN last'.result = "IntegrityError" /\ rows' = rows
             ELSE /\ last'.result = "ok"
                  /\ \E r \in rows' \ rows :
                        /\ r.table = last'.table /\ r.refs = last'.refs
                        /\ rows' = rows \cup {r}]_vars

\* An instance and its swap are both stored
C5_BothStored ==
    /\ last.op = "create"
    /\ last.result = "ok"
    /\ SwappedOf(last.table, last.refs) # {}
    /\ SameTuple(last.table, last.refs) # {}

\* C7: once a Context is deleted, the variant row and the candidate row of
\* every Candidate that referenced it are gone.
C7_DeleteCascadesToCandidate ==
    [][\A c \in context \ context' :
         \A r \in rows :
            References(r, c)
                => /\ r.id \notin Ids(rows')
                   /\ r.id \notin Ids(candidate')]_vars

(***************************************************************************)
(* Properties of Candidate instances                                      *)
(***************************************************************************)
\* C3: a == b exactly when the stable ids of their Contexts, in role
\* order, are the same.
C3_EqualIffSameStableIds ==
    (last.op = "eq" /\ AllBound(objA) /\ AllBound(objB))
        => (last.result = "True" <=> StableIds(objA) = StableIds(objB))

BoundParents(o) == {ParentOf(o.ctxs[i]) : i \in {j \in DOMAIN o.ctxs : o.ctxs[j] # Unbound}}

\* C6: get_parent() returns P when the parent of every
\* constituent Context is P and raises the parentage error when two of them
\* have different parents.
C6_CommonParentOrError ==
    (last.op = "get_parent" /\ Len(objA.ctxs) >= 1)
        => /\ Cardinality(BoundParents(objA)) = 1
                => /\ last.result = "ok"
                   /\ {last.value} = BoundParents(objA)
           /\ Cardinality(BoundParents(objA)) >= 2
                => last.result = "Exception"

\* C6, for bound roles: for a candidate of any arity >= 1 whose roles are all bound
\* to Contexts, get_parent() returns P when the parent of every one is P and
\* raises the parentage error when two of them, at any positions, have
\* different parents; with a role unbound it raises AttributeError instead.
C6_BoundCommonParentOrError ==
    (last.op = "get_parent" /\ Len(objA.ctxs) >= 1)
        => IF AllBound(objA)
           THEN /\ Cardinality(BoundParents(objA)) = 1
                     => /\ last.result = "ok"
                        /\ {last.value} = BoundParents(objA)
                /\ Cardinality(BoundParents(objA)) >= 2
                     => last.result = "Exception"
           ELSE last.result = "AttributeError"

\* The parentage error raised for a candidate whose first and last role
\* share a parent
C6_MiddleDiffers ==
    /\ last.op = "get_parent"
    /\ last.result = "Exception"
    /\ AllBound(objA)
    /\ Len(objA.ctxs) >= 3
    /\ ParentOf(objA.ctxs[1]) = ParentOf(objA.ctxs[Len(objA.ctxs)])

(***************************************************************************)
(* Spacy.parse: a generator over the sentences of the parsed document.     *)
(* sents[i] says whether parse_sent raises on the i-th sentence.  The      *)
(* consumer drives the generator with next(); each call runs the loop of   *)
(* lines 114-121 up to the next yield or to exhaustion.                    *)
(***************************************************************************)
MaxSents == 4

Outcomes == {"ok", "raises"}

Documents == SeqsUpTo(Outcomes, MaxSents)

\* Lines 123-158: the record of the sentence, or the exception
parse_sent(i, pos) ==
    IF sents[i] = "raises"
    THEN [res |-> "Exception"]
    ELSE [res |-> "ok", parts |-> [sent |-> i, position |-> pos]]

\* What the generator does once the handler has run, if nothing caught it
AfterFailurePropagates == "Exception"

\* Lines 120-121: the handler logs, the loop goes on with the next sentence
AfterFailure == "running"

\* Lines 104-113: the text is unicode and the pipeline parses it, so the
\* assertions hold; the generator body starts at the first next()
parse ==
    /\ gen = "created"
    /\ gen' = "running"
    /\ position' = 0
    /\ cursor' = 1
    /\ UNCHANGED <<sents, yielded, warned>>
    /\ UNCHANGED <<factoryVars, storeVars, objVars, overlayVars, last>>

\* Lines 114-121: one turn of the for loop
ForSent ==
    /\ gen = "running"
    /\ cursor <= Len(sents)
    /\ LET r == parse_sent(cursor, position) IN
        IF r.res = "ok"
        THEN /\ position' = position + 1
             /\ yielded' = Append(yielded, r.parts)
             /\ UNCHANGED <<gen, warned>>
        ELSE /\ warned' = Append(warned, position)
             /\ gen' = AfterFailure
             /\ UNCHANGED <<position, yielded>>
    /\ cursor' = cursor + 1
    /\ UNCHANGED sents
    /\ UNCHANGED <<factoryVars, storeVars, objVars, overlayVars, last>>

\* Line 114: doc.sents is exhausted, the generator raises StopIteration
Exhausted ==
    /\ gen = "running"
    /\ cursor > Len(sents)
    /\ gen' = "done"
    /\ UNCHANGED <<sents, cursor, position, yielded, warned>>
    /\ UNCHANGED <<factoryVars, storeVars, objVars, overlayVars, last>>

InitParse ==
    /\ tables = {}
    /\ issued = {}
    /\ metadata = [p \in Procs |-> {}]
    /\ pc = [p \in Procs |-> "idle"]
    /\ frame = [p \in Procs |-> Idle]
    /\ serial = FALSE
    /\ last = NoCall
    /\ StoreEmpty
    /\ ObjectsEmpty
    /\ OverlayEmpty
    /\ sents \in Documents
    /\ gen = "created"
    /\ cursor = 1
    /\ position = 0
    /\ yielded = <<>>
    /\ warned = <<>>

NextParse == parse \/ ForSent \/ Exhausted

SpecParse == InitParse /\ [][NextParse]_vars

\* The consumer iterates the generator until it is exhausted
SpecParseLive == SpecParse /\ WF_vars(NextParse)

(***************************************************************************)
(* SpacyPretagged.update_entity_attributes on one sentence.  tokens is     *)
(* parts['abs_char_offsets'], increasing; the sentence spans from its      *)
(* first token to end_char.                                                *)
(***************************************************************************)
MaxChar == 3

MaxHits == 2

Chars == 0..MaxChar

BmbIds == {7, 8}

\* The increasing sequence of the members of S
RECURSIVE Sorted(_)
Sorted(S) ==
    IF S = {} THEN <<>>
    ELSE LET m == CHOOSE x \in S : \A y \in S : x <= y
         IN  <<m>> \o Sorted(S \ {m})

RECURSIVE SelectSeqIn(_, _, _)
\* [x for x in s if lo <= x <= hi]
SelectSeqIn(s, lo, hi) ==
    IF s = <<>> THEN <<>>
    ELSE (IF lo <= Head(s) /\ Head(s) <= hi THEN <<Head(s)>> ELSE <<>>)
         \o SelectSeqIn(Tail(s), lo, hi)

\* sent.start_char and sent.end_char
start_char == tokens[1]

end_char == tokens[Len(tokens)] + 1

\* Lines 160-162
Spacy_update_entity_attributes == [i \in 1..Len(tokens) |-> "O"]

\* x <= document.meta['hit_starts'] compares an int with a list; the module
\* is Python 2 (line 104 names unicode), where a number orders before a list
IntLeList(x, l) == TRUE

\* Lines 173-174: the list the index is taken from
IndexList(hit) ==
    {i \in 1..Len(tokens) : hit <= tokens[i] /\ IntLeList(tokens[i], hit_starts)}

\* Lines 166-169
SpacyPretagged_update_entity_attributes ==
    /\ opc = "called"
    /\ entity_cids' = Spacy_update_entity_attributes
    /\ entity_types' = Spacy_update_entity_attributes
    /\ hits' = SelectSeqIn(hit_starts, start_char, end_char)
    /\ opc' = "loop"
    /\ UNCHANGED <<tokens, targets, hit_starts, bmb_id, raised, last>>
    /\ UNCHANGED <<factoryVars, storeVars, objVars, parseVars>>

\* Lines 170-180: one turn of the for loop
ForHit ==
    /\ opc = "loop"
    /\ hits # <<>>
    /\ LET hit == Head(hits) IN
        IF IndexList(hit) = {}
        THEN \* [][0] raises IndexError, line 180 raises the alignment error
             /\ raised' = "IndexError"
             /\ opc' = "raised"
             /\ last' = [op |-> "hit", hit |-> hit, marked |-> {}]
             /\ UNCHANGED <<entity_types, entity_cids>>
        ELSE LET index == CHOOSE i \in IndexList(hit) :
                              \A j \in IndexList(hit) : i <= j
             IN  /\ entity_types' = [entity_types EXCEPT ![index] = "hit"]
                 /\ entity_cids' =
                        [entity_cids EXCEPT ![index] = ToString(bmb_id)]
                 /\ last' = [op |-> "hit", hit |-> hit, marked |-> {index}]
                 /\ IF index \in targets
                    THEN UNCHANGED <<opc, raised>>
                    ELSE /\ raised' = "AssertionError"
                         /\ opc' = "raised"
    /\ hits' = Tail(hits)
    /\ UNCHANGED <<tokens, targets, hit_starts, bmb_id>>
    /\ UNCHANGED <<factoryVars, storeVars, objVars, parseVars>>

\* Line 170: no hit is left, the method returns
OverlayReturn ==
    /\ opc = "loop"
    /\ hits = <<>>
    /\ opc' = "returned"
    /\ UNCHANGED <<tokens, targets, hit_starts, bmb_id, hits, entity_types,
                   entity_cids, raised, last>>
    /\ UNCHANGED <<factoryVars, storeVars, objVars, parseVars>>

InitOverlay ==
    /\ tables = {}
    /\ issued = {}
    /\ metadata = [p \in Procs |-> {}]
    /\ pc = [p \in Procs |-> "idle"]
    /\ frame = [p \in Procs |-> Idle]
    /\ serial = FALSE
    /\ last = NoCall
    /\ StoreEmpty
    /\ ObjectsEmpty
    /\ ParseEmpty
    /\ \E S \in (SUBSET (0..(MaxChar - 1))) \ {{}} :
        /\ tokens = Sorted(S)
        /\ targets \in SUBSET (1..Cardinality(S))
    /\ hit_starts \in SeqsUpTo(Chars, MaxHits)
    /\ bmb_id \in BmbIds
    /\ hits = <<>>
    /\ entity_types = <<>>
    /\ entity_cids = <<>>
    /\ opc = "called"
    /\ raised = "none"

NextOverlay == SpacyPretagged_update_entity_attributes \/ ForHit \/ OverlayReturn

SpecOverlay == InitOverlay /\ [][NextOverlay]_vars

\* The sentences before the cursor on which parse_sent does not raise
RECURSIVE NonFailing(_)
NonFailing(n) ==
    IF n = 0 THEN <<>>
    ELSE NonFailing(n - 1) \o (IF sents[n] = "ok" THEN <<n>> ELSE <<>>)

C8_Inv ==
    /\ gen \in {"created", "running", "done"}
    /\ gen # "created" =>
        /\ [k \in 1..Len(yielded) |-> yielded[k].sent] = NonFailing(cursor - 1)
        /\ \A k \in 1..Len(yielded) : yielded[k].position = k - 1
    /\ gen = "done" => cursor = Len(sents) + 1

\* C8: whatever sentences parse_sent raises on, parse yields the records of
\* exactly the other sentences, in document order, those after a failing
\* sentence included, never ends with the exception, and reaches exhaustion
C8_SkipsExactlyFailing == [](C8_Inv) /\ <>(gen = "done")

\* A failing sentence followed by a sentence that was yielded, generator done
C8_YieldedAfterFailure ==
    /\ gen = "done"
    /\ \E i \in 1..Len(sents) : \E k \in 1..Len(yielded) :
        /\ sents[i] = "raises"
        /\ yielded[k].sent > i

\* C9: for every hit start inside the sentence, if some token starts at the
\* hit that token's entity_types entry is "hit" and its entity_cids entry is
\* the id string; if no token starts there the alignment error is raised and
\* no token is marked
C9_AlignedMarkedElseError ==
    last.op = "hit" =>
        IF \E i \in 1..Len(tokens) : tokens[i] = last.hit
        THEN \A i \in 1..Len(tokens) :
                tokens[i] = last.hit =>
                    /\ entity_types[i] = "hit"
                    /\ entity_cids[i] = ToString(bmb_id)
        ELSE /\ raised = "IndexError"
             /\ last.marked = {}

=============================================================================
